---- MODULE Spec2Model ----
(***************************************************************************)
(* llm-text-scraper: the two scraper variants (main.py, scraper.py) and    *)
(* the helper pickle.py, sharing the cache directory ./tmp and the output  *)
(* file llms-full.txt.                                                     *)
(*                                                                         *)
(* Strings are sequences of one-character strings.  "LF", "CR" and "SP"    *)
(* stand for the line feed, carriage return and space characters.          *)
(***************************************************************************)
EXTENDS Integers, Sequences, FiniteSets, TLC

\* ------------------------------------------------------------------ bounds
MaxRuns == 2
MaxLinks == 2
MaxLines == 2
MaxPickles == 1
MaxKills == 1
MaxFaults == 1

\* ------------------------------------------------------- program constants
MinTextLen == 50

\* ----------------------------------------------------------------- strings
\* A string is a sequence of characters; the values that stand for "no string"
\* are sequences of one element that is no character.
None == <<"<None>">>
NoFile == <<"<no file>">>
NoElem == <<None>>
NoList == <<NoFile>>
Corrupt == <<<<"<corrupt>">>>>
NoOutput == [state |-> "absent"]
Truncated == [state |-> "truncated"]
NoCall == [called |-> FALSE]

RECURSIVE Rep(_, _)
Rep(c, n) == IF n = 0 THEN <<>> ELSE <<c>> \o Rep(c, n - 1)

Whitespace == {"SP", "LF", "CR"}

RECURSIVE LStrip(_)
LStrip(s) ==
    IF s # <<>> /\ Head(s) \in Whitespace THEN LStrip(Tail(s)) ELSE s

RECURSIVE RStrip(_)
RStrip(s) ==
    IF s # <<>> /\ s[Len(s)] \in Whitespace
    THEN RStrip(SubSeq(s, 1, Len(s) - 1))
    ELSE s

\* str.strip()
Strip(s) == RStrip(LStrip(s))

RECURSIVE RStripChar(_, _)
\* str.rstrip(c) for a single character c
RStripChar(s, c) ==
    IF s # <<>> /\ s[Len(s)] = c THEN RStripChar(SubSeq(s, 1, Len(s) - 1), c) ELSE s

RECURSIVE StripChar(_, _)
\* str.strip(c) for a single character c
StripChar(s, c) ==
    IF s # <<>> /\ Head(s) = c THEN StripChar(Tail(s), c) ELSE RStripChar(s, c)

\* str.startswith
StartsWith(s, p) == Len(p) <= Len(s) /\ SubSeq(s, 1, Len(p)) = p

\* the Python operator `sub in s` on strings
Contains(sub, s) ==
    \E k \in 0..(Len(s) - Len(sub)) : SubSeq(s, k + 1, k + Len(sub)) = sub

\* str.count(c)
Count(s, c) == Cardinality({k \in 1..Len(s) : s[k] = c})

\* code points of the characters that occur in URLs
Code(c) ==
    CASE c = "/" -> 47 [] c = ":" -> 58 [] c = "?" -> 63
      [] c = "a" -> 97 [] c = "c" -> 99 [] c = "d" -> 100 [] c = "e" -> 101
      [] c = "g" -> 103 [] c = "h" -> 104 [] c = "o" -> 111 [] c = "s" -> 115
      [] c = "x" -> 120

RECURSIVE StrLess(_, _)
\* s < t for Python strings (code point order, a proper prefix is smaller)
StrLess(s, t) ==
    IF t = <<>> THEN FALSE
    ELSE IF s = <<>> THEN TRUE
    ELSE IF Head(s) = Head(t) THEN StrLess(Tail(s), Tail(t))
    ELSE Code(Head(s)) < Code(Head(t))

RECURSIVE Join(_, _)
\* sep.join(parts)
Join(parts, sep) ==
    IF parts = <<>> THEN <<>>
    ELSE IF Len(parts) = 1 THEN parts[1]
    ELSE parts[1] \o sep \o Join(Tail(parts), sep)

\* ------------------------------------------------------------ text files
\* os.linesep of the platform the Chrome options are written for (POSIX)
LineSep == <<"LF">>

RECURSIVE WriteText(_)
\* open(path, "w", encoding="utf-8").write(s): "\n" is written as os.linesep
WriteText(s) ==
    IF s = <<>> THEN <<>>
    ELSE (IF Head(s) = "LF" THEN LineSep ELSE <<Head(s)>>) \o WriteText(Tail(s))

RECURSIVE ReadText(_)
\* open(path, "r", encoding="utf-8").read(): universal newlines, "\r\n" and
\* "\r" are read as "\n"
ReadText(b) ==
    IF b = <<>> THEN <<>>
    ELSE IF Head(b) = "CR"
         THEN IF Len(b) >= 2 /\ b[2] = "LF"
              THEN <<"LF">> \o ReadText(Tail(Tail(b)))
              ELSE <<"LF">> \o ReadText(Tail(b))
         ELSE <<Head(b)>> \o ReadText(Tail(b))

\* truthiness of a str-or-None value
Truthy(x) == x # None /\ x # <<>>

\* ------------------------------------------------------------------ URLs
Docs == <<"/", "d", "o", "c", "s">>
SiteE == <<"h", ":", "/", "/", "e">>
SiteEg == <<"h", ":", "/", "/", "e", "g">>

\* h://e/docs/g, h://e/docs?/g/ and h://eg/o
UrlGuide == SiteE \o Docs \o <<"/", "g">>
UrlQuery == SiteE \o Docs \o <<"?", "/", "g", "/">>
UrlOtherHost == SiteEg \o <<"/", "o">>

\* the hrefs a rendered hub page can carry
Universe == {UrlGuide, UrlQuery, UrlOtherHost}

\* --base-url and --filter-path as given on the command line
BaseArgs == {SiteE \o <<"/">>, SiteEg}
FilterArgs == {<<"/">>, <<"/", "g", "/">>}

\* BASE_URL = args.base_url.rstrip("/")
BaseUrlOf(arg) == RStripChar(arg, "/")

\* FILTER_PATH = args.filter_path.strip("/")
FilterPathOf(arg) == StripChar(arg, "/")

\* the prefix extract_links requires of an href
LinkPrefix(v, b) == IF v = "main" THEN b \o Docs \o <<"/">> ELSE b

\* extract_links: the hrefs of the hub page that start with the prefix, as a set
ExtractLinks(v, b, hrefs) == {h \in hrefs : StartsWith(h, LinkPrefix(v, b))}

\* the filter of get_all_urls: main.py `FILTER_PATH in url`,
\* scraper.py `not FILTER_PATH or FILTER_PATH in url`
KeepUrl(v, f, url) ==
    IF v = "main" THEN Contains(f, url) ELSE f = <<>> \/ Contains(f, url)

\* the sort key of get_all_urls: (x.count("/"), x)
KeyLess(x, y) ==
    \/ Count(x, "/") < Count(y, "/")
    \/ Count(x, "/") = Count(y, "/") /\ StrLess(x, y)

RECURSIVE SortUrls(_)
\* list.sort(key=...) of the elements of a set
SortUrls(S) ==
    IF S = {} THEN <<>>
    ELSE LET m == CHOOSE x \in S : \A y \in S \ {x} : KeyLess(x, y)
         IN <<m>> \o SortUrls(S \ {m})

\* the list get_all_urls builds when no urls_cache.pkl exists
ResolveFresh(v, b, f, hrefs) ==
    SortUrls({u \in ExtractLinks(v, b, hrefs) : KeepUrl(v, f, u)})

\* ------------------------------------------------------- rendered pages
\* An element is the sequence of its descendant text nodes.  A rendered page
\* is a record: custom, the first element the --custom-selector matches;
\* sel, the first element each of the six fallback selectors matches
\* ("article" first, "main" last); divs, every <div> in document order.
ShortA == Rep("a", 30)
ShortB == Rep("b", 30)
LongC == Rep("c", MinTextLen + 1)

NoSel == [k \in 1..6 |-> NoElem]

\* a page whose only candidate is an <article> of 30 characters
PageShort ==
    [status |-> "ok", custom |-> NoElem,
     sel |-> [NoSel EXCEPT ![1] = <<ShortA>>],
     divs |-> <<>>]
\* a page whose <article> holds a carriage return between two text runs, and
\* which the custom selector matches
PageCr ==
    [status |-> "ok", custom |-> << <<"SP">> \o LongC \o <<"LF">> >>,
     sel |-> [NoSel EXCEPT ![1] = <<ShortA \o <<"CR">> \o ShortB>>],
     divs |-> <<>>]

\* the pages a render can produce
Pages == {PageShort, PageCr}

\* Tag.get_text(separator)
GetText(el, sep) == Join(el, sep)

\* content.get_text(separator="\n").strip()
ElemText(el) == Strip(GetText(el, <<"LF">>))

\* the threshold test `len(extracted_text) > 50`
LongEnough(t) == Len(t) > MinTextLen

RECURSIVE FirstFallback(_, _)
\* the loop over possible_selectors, from selector k on: the text of the first
\* selector whose first match has more than 50 characters, else None
FirstFallback(page, k) ==
    IF k > 6 THEN None
    ELSE IF page.sel[k] # NoElem /\ LongEnough(ElemText(page.sel[k]))
         THEN ElemText(page.sel[k])
         ELSE FirstFallback(page, k + 1)

\* max(divs, key=lambda d: len(d.get_text())): the first div of maximal length
LargestDiv(divs) ==
    LET best == CHOOSE k \in 1..Len(divs) :
                    /\ \A j \in 1..Len(divs) :
                           Len(GetText(divs[j], <<>>)) <= Len(GetText(divs[k], <<>>))
                    /\ \A j \in 1..(k - 1) :
                           Len(GetText(divs[j], <<>>)) < Len(GetText(divs[k], <<>>))
    IN divs[best]

\* the last resort of scraper.py's extract_text
DivText(page) ==
    IF page.divs # <<>> /\ LongEnough(ElemText(LargestDiv(page.divs)))
    THEN ElemText(LargestDiv(page.divs))
    ELSE <<>>

\* scraper.py extract_text(soup, custom_selector)
ExtractTextScraper(page, useCustom) ==
    IF useCustom /\ page.custom # NoElem /\ LongEnough(ElemText(page.custom))
    THEN ElemText(page.custom)
    ELSE IF FirstFallback(page, 1) # None THEN FirstFallback(page, 1)
    ELSE DivText(page)

\* main.py extract_text(soup): the text of the first <article>
ExtractTextMain(page) ==
    IF page.sel[1] # NoElem THEN ElemText(page.sel[1]) ELSE <<>>

extract_text(v, page, useCustom) ==
    IF v = "main" THEN ExtractTextMain(page) ELSE ExtractTextScraper(page, useCustom)

\* the replies of the model: response.choices[0].message.content
LlmReplies == {<<"SP", "s", "LF">>}

\* the text is dropped when the model call raises
DropOnError(text, reply) == IF reply = None THEN <<>> ELSE Strip(reply)

\* process_with_llm(text): the model's reply stripped, or the text when the
\* call raises (reply None)
process_with_llm(text, reply) ==
    IF reply = None THEN text ELSE Strip(reply)

\* ------------------------------------------------------------------ state
VARIABLES
    urlsFile,    \* ./tmp/urls_cache.pkl: NoList, Corrupt or the pickled list
    cache,       \* ./tmp/<md5(url)>.txt per URL: NoFile or the file's text
    outFile,     \* llms-full.txt: NoOutput, Truncated or the written document
    runs,        \* scraper invocations started so far
    pickles,     \* pickle.py invocations so far
    kills,       \* process terminations so far
    faults,      \* file-system errors so far
    pc,          \* position of the running script
    variant,     \* "main" (main.py) or "scraper" (scraper.py)
    base,        \* BASE_URL
    filter,      \* FILTER_PATH
    custom,      \* whether --custom-selector is given
    urls,        \* the list get_all_urls returned
    discovered,  \* whether this run called extract_links
    i,           \* index into urls of the URL being processed (0 before the loop)
    content,     \* what fetch_page returned for urls[i]
    page,        \* the page fetch_page rendered for urls[i], NoPage if none
    doc,         \* structured_text, as the sequence of its sections
    wrote,       \* whether this run wrote the output file
    hist,        \* per fetch_page call of this run: the URL, what was returned, how the rewrite went
    lastRet,     \* per URL: what the previous fetch_page call returned, and whether it rendered
    extracted    \* per URL: the last non-empty text a completed render and extract gave

vars ==
    <<urlsFile, cache, outFile, runs, pickles, kills, faults, pc, variant, base, filter,
      custom, urls, discovered, i, content, page, doc, wrote, hist, lastRet,
      extracted>>

files == <<urlsFile, cache, outFile>>
config == <<variant, base, filter, custom>>
counters == <<pickles, kills, faults>>
history == <<lastRet, extracted>>

\* driver.get(url) raises
RenderError == [status |-> "error", custom |-> NoElem, sel |-> NoSel, divs |-> <<>>]
NoPage == [status |-> "none", custom |-> NoElem, sel |-> NoSel, divs |-> <<>>]

\* the hub pages a render can produce: the sets of hrefs of at most MaxLinks links
HubPages == {h \in SUBSET Universe : Cardinality(h) <= MaxLinks}

RECURSIVE SeqsUpTo(_, _)
SeqsUpTo(S, n) ==
    IF n = 0 THEN {<<>>}
    ELSE SeqsUpTo(S, n - 1) \cup
         {Append(q, x) : q \in {r \in SeqsUpTo(S, n - 1) : Len(r) = n - 1}, x \in S}

\* the text files pickle.py can be given: at most MaxLines lines
SourceFiles == SeqsUpTo({UrlGuide, UrlQuery}, MaxLines)

Idle == pc \in {"idle", "done", "aborted", "killed"}

\* the state before the first invocation: an empty ./tmp, no output file
InitFiles ==
    /\ urlsFile = NoList
    /\ cache = [u \in Universe |-> NoFile]
    /\ outFile = NoOutput
    /\ runs = 0
    /\ pickles = 0
    /\ kills = 0
    /\ faults = 0
    /\ base = SiteE
    /\ filter = <<>>
    /\ urls = <<>>
    /\ discovered = FALSE
    /\ i = 0
    /\ content = None
    /\ page = NoPage
    /\ doc = <<>>
    /\ wrote = FALSE
    /\ hist = <<>>
    /\ lastRet = [u \in Universe |-> NoCall]
    /\ extracted = [u \in Universe |-> None]

Init ==
    /\ InitFiles
    /\ pc = "idle"
    /\ variant = "scraper"
    /\ custom = FALSE

\* ----------------------------------------------------------------- actions
\* python main.py / python scraper.py: argument parsing and module constants
StartRun ==
    /\ Idle
    /\ runs < MaxRuns
    /\ \E v \in {"main", "scraper"}, b \in BaseArgs, f \in FilterArgs, c \in BOOLEAN :
        /\ v = "main" => ~c
        /\ variant' = v
        /\ base' = BaseUrlOf(b)
        /\ filter' = FilterPathOf(f)
        /\ custom' = c
    /\ runs' = runs + 1
    /\ pc' = "get_urls"
    /\ urls' = <<>>
    /\ discovered' = FALSE
    /\ i' = 0
    /\ content' = None
    /\ page' = NoPage
    /\ doc' = <<>>
    /\ wrote' = FALSE
    /\ hist' = <<>>
    /\ UNCHANGED <<files, counters, history>>

\* python pickle.py --source <text file> --destination ./tmp/urls_cache.pkl
PicklePy ==
    /\ Idle
    /\ runs < MaxRuns
    /\ pickles < MaxPickles
    /\ pickles' = pickles + 1
    /\ \E lines \in SourceFiles : urlsFile' = lines
    /\ UNCHANGED <<cache, outFile, runs, kills, faults, pc, config, urls, discovered, i,
                   content, page, doc, wrote, hist, history>>

\* a cached list is used only when it is not empty
UseUrlCacheNonEmpty(file) == file # NoList /\ file # <<>>

\* the test `os.path.exists(cache_file)` of get_all_urls
UseUrlCache(file) == file # NoList

\* where main goes after get_all_urls: `if not urls: return`
AfterUrls(list) == IF list = <<>> THEN "done" ELSE "fetch"

\* get_all_urls, the list loaded or discovered, filtered, sorted and dumped
GetAllUrls ==
    /\ pc = "get_urls"
    /\ urlsFile # Corrupt
    /\ \E hrefs \in HubPages :
        LET hit == UseUrlCache(urlsFile)
            list == IF hit THEN urlsFile ELSE ResolveFresh(variant, base, filter, hrefs)
        IN /\ urls' = list
           /\ urlsFile' = list
           /\ discovered' = ~hit
           /\ pc' = AfterUrls(list)
           /\ i' = IF list = <<>> THEN 0 ELSE 1
    /\ UNCHANGED <<cache, outFile, runs, counters, config, content, page, doc, wrote,
                   hist, history>>

\* extract_links raises (driver.get on the hub page fails): the run ends there
HubFails ==
    /\ pc = "get_urls"
    /\ ~UseUrlCache(urlsFile)
    /\ discovered' = TRUE
    /\ pc' = "aborted"
    /\ UNCHANGED <<files, runs, counters, config, urls, i, content, page, doc, wrote,
                   hist, history>>

\* the loop of scrape_and_structure after urls[k]: the next URL, or back to main
AfterUrl(k, list) == IF k < Len(list) THEN "fetch" ELSE "finish"

\* the cache file is never written
CacheWriteNever(file, text) == file

\* fetch_page's `if content:` before writing the cache file
CacheWrite(file, text) == IF Truthy(text) THEN WriteText(text) ELSE file

\* fetch_page(urls[i]) and the `if not content: continue` that follows it
FetchPage ==
    /\ pc = "fetch"
    /\ \E outcome \in Pages \cup {RenderError} :
        LET url == urls[i]
            hit == cache[url] # NoFile
            got == IF hit THEN ReadText(cache[url])
                   ELSE IF outcome = RenderError THEN None
                   ELSE extract_text(variant, outcome, custom)
        IN /\ content' = got
           /\ page' = IF hit THEN NoPage ELSE outcome
           /\ cache' = IF hit THEN cache
                       ELSE [cache EXCEPT ![url] = CacheWrite(cache[url], got)]
           /\ lastRet' = [lastRet EXCEPT ![url] =
                              [called |-> TRUE, ret |-> got, rendered |-> ~hit]]
           /\ extracted' = IF ~hit /\ Truthy(got)
                           THEN [extracted EXCEPT ![url] = got]
                           ELSE extracted
           /\ hist' = Append(hist, [url |-> url, content |-> got, llm |-> "none"])
           /\ IF Truthy(got)
              THEN pc' = "llm" /\ i' = i
              ELSE pc' = AfterUrl(i, urls) /\ i' = i + 1
    /\ UNCHANGED <<urlsFile, outFile, runs, counters, config, urls, discovered, doc,
                   wrote>>

\* the section is put before the earlier ones
PrependSection(d, url, body) == <<[url |-> url, body |-> body]>> \o d

\* structured_text += rule, url, rule, processed_text
AppendSection(d, url, body) == Append(d, [url |-> url, body |-> body])

\* process_with_llm(content) and the section appended for urls[i]
ProcessWithLlm ==
    /\ pc = "llm"
    /\ \E reply \in LlmReplies \cup {None} :
        /\ doc' = AppendSection(doc, urls[i], process_with_llm(content, reply))
        /\ hist' = [hist EXCEPT ![Len(hist)].llm =
                        IF reply = None THEN "raised" ELSE "ok"]
    /\ pc' = AfterUrl(i, urls)
    /\ i' = i + 1
    /\ page' = NoPage
    /\ UNCHANGED <<files, runs, counters, config, urls, discovered, content, wrote,
                   history>>

\* the output file is written whatever the buffer holds
AlwaysWrite(d) == TRUE

\* main's test `if docs_content.strip():` (a section is never blank: it holds
\* the two rule lines)
ShouldWrite(d) == d # <<>>

\* docs_content.strip(): the blank lines before the first rule go, and the
\* white space that ends the last section's body
StripDoc(d) ==
    IF d = <<>> THEN d ELSE [d EXCEPT ![Len(d)].body = RStrip(d[Len(d)].body)]

\* the end of main: the output file written, or the warning printed
Finish ==
    /\ pc = "finish"
    /\ IF ShouldWrite(doc)
       THEN /\ outFile' = [state |-> "written", base |-> base, filter |-> filter,
                           sections |-> StripDoc(doc)]
            /\ wrote' = TRUE
       ELSE UNCHANGED <<outFile, wrote>>
    /\ pc' = "done"
    /\ page' = NoPage
    /\ UNCHANGED <<urlsFile, cache, runs, counters, config, urls, discovered, i,
                   content, doc, hist, history>>

Next ==
    \/ StartRun
    \/ PicklePy
    \/ GetAllUrls
    \/ HubFails
    \/ FetchPage
    \/ ProcessWithLlm
    \/ Finish

Spec == Init /\ [][Next]_vars

\* ------------------------------------------------- file-system errors
\* pickle.load of an empty or damaged urls_cache.pkl raises: the run ends
LoadCorrupt ==
    /\ pc = "get_urls"
    /\ urlsFile = Corrupt
    /\ pc' = "aborted"
    /\ UNCHANGED <<files, runs, counters, config, urls, discovered, i, content, page,
                   doc, wrote, hist, history>>

\* get_all_urls: open, pickle.load or pickle.dump raises (nothing catches it);
\* a dump that fails after open("wb") leaves an empty urls_cache.pkl
GetAllUrlsIOError ==
    /\ pc = "get_urls"
    /\ urlsFile # Corrupt
    /\ faults < MaxFaults
    /\ faults' = faults + 1
    /\ \E hrefs \in HubPages :
        IF UseUrlCache(urlsFile)
        THEN UNCHANGED <<urlsFile, discovered>>
        ELSE discovered' = TRUE /\ urlsFile' \in {NoList, Corrupt}
    /\ pc' = "aborted"
    /\ UNCHANGED <<cache, outFile, runs, pickles, kills, config, urls, i, content,
                   page, doc, wrote, hist, history>>

\* fetch_page: the cache file exists and open or f.read raises; the read is
\* outside the try block, so the exception leaves scrape_and_structure and main
FetchPageReadError ==
    /\ pc = "fetch"
    /\ cache[urls[i]] # NoFile
    /\ faults < MaxFaults
    /\ faults' = faults + 1
    /\ pc' = "aborted"
    /\ UNCHANGED <<files, runs, pickles, kills, config, urls, discovered, i, content,
                   page, doc, wrote, hist, history>>

\* fetch_page: open(cache_file, "w") or f.write raises inside the try block:
\* None is returned; a write that fails after the open leaves an empty file
FetchPageWriteError ==
    /\ pc = "fetch"
    /\ cache[urls[i]] = NoFile
    /\ faults < MaxFaults
    /\ faults' = faults + 1
    /\ \E outcome \in Pages, left \in {NoFile, <<>>} :
        /\ Truthy(extract_text(variant, outcome, custom))
        /\ page' = outcome
        /\ cache' = [cache EXCEPT ![urls[i]] = left]
    /\ content' = None
    /\ lastRet' = [lastRet EXCEPT ![urls[i]] =
                       [called |-> TRUE, ret |-> None, rendered |-> TRUE]]
    /\ hist' = Append(hist, [url |-> urls[i], content |-> None, llm |-> "none"])
    /\ pc' = AfterUrl(i, urls)
    /\ i' = i + 1
    /\ UNCHANGED <<urlsFile, outFile, runs, pickles, kills, config, urls, discovered,
                   doc, wrote, extracted>>

NextIO ==
    \/ Next
    \/ LoadCorrupt
    \/ GetAllUrlsIOError
    \/ FetchPageReadError
    \/ FetchPageWriteError

SpecIO == Init /\ [][NextIO]_vars

\* ------------------------------------------------- process termination
Running == pc \in {"get_urls", "fetch", "llm", "finish"}

\* the process is terminated between two steps
Kill ==
    /\ Running
    /\ kills < MaxKills
    /\ kills' = kills + 1
    /\ pc' = "killed"
    /\ UNCHANGED <<files, runs, pickles, faults, config, urls, discovered, i, content,
                   page, doc, wrote, hist, history>>

\* the process is terminated in get_all_urls between open(cache_file, "wb") and
\* the end of pickle.dump: urls_cache.pkl exists and holds no complete pickle
KillDuringDump ==
    /\ pc = "get_urls"
    /\ ~UseUrlCache(urlsFile)
    /\ kills < MaxKills
    /\ kills' = kills + 1
    /\ urlsFile' = Corrupt
    /\ discovered' = TRUE
    /\ pc' = "killed"
    /\ UNCHANGED <<cache, outFile, runs, pickles, faults, config, urls, i, content,
                   page, doc, wrote, hist, history>>

\* the process is terminated in fetch_page between open(cache_file, "w") and the
\* close that flushes the text (shorter than the write buffer): the cache
\* file exists and is empty
KillDuringCacheWrite ==
    /\ pc = "fetch"
    /\ cache[urls[i]] = NoFile
    /\ kills < MaxKills
    /\ kills' = kills + 1
    /\ \E outcome \in Pages :
        /\ Truthy(extract_text(variant, outcome, custom))
        /\ page' = outcome
    /\ cache' = [cache EXCEPT ![urls[i]] = <<>>]
    /\ pc' = "killed"
    /\ UNCHANGED <<urlsFile, outFile, runs, pickles, faults, config, urls, discovered,
                   i, content, doc, wrote, hist, history>>

\* the process is terminated in main between open(OUTPUT_FILE, "w") and the
\* last write
KillDuringOutput ==
    /\ pc = "finish"
    /\ ShouldWrite(doc)
    /\ kills < MaxKills
    /\ kills' = kills + 1
    /\ outFile' = Truncated
    /\ pc' = "killed"
    /\ UNCHANGED <<urlsFile, cache, runs, pickles, faults, config, urls, discovered, i,
                   content, page, doc, wrote, hist, history>>

NextKill ==
    \/ Next
    \/ LoadCorrupt
    \/ Kill
    \/ KillDuringDump
    \/ KillDuringCacheWrite
    \/ KillDuringOutput

SpecKill == Init /\ [][NextKill]_vars

\* ------------------------------------------------- extract_text alone
ShortRun == Rep("a", 30)
ExactRun == Rep("b", MinTextLen)
LongRun == Rep("c", MinTextLen + 1)

\* rendered pages over which extract_text is exercised: what the custom
\* selector, "article" and "main" match, and the <div>s of the page
PageFamily ==
    {[status |-> "ok", custom |-> c, sel |-> [NoSel EXCEPT ![1] = a, ![6] = m],
      divs |-> d] :
        c \in {NoElem, <<ShortRun>>, << <<"LF">> \o LongRun \o <<"SP">> >>},
        a \in {NoElem, <<ShortRun>>, <<ExactRun>>, <<ShortRun, ShortRun>>},
        m \in {NoElem, <<ExactRun, <<"SP">> >>, <<LongRun>>},
        d \in {<<>>, << <<ShortRun>> >>,
               << <<ExactRun>>, <<ShortRun, ShortRun>>, <<LongRun>> >>}}

InitExtract ==
    /\ InitFiles
    /\ pc = "extract"
    /\ variant \in {"main", "scraper"}
    /\ custom \in BOOLEAN
    /\ variant = "main" => ~custom

\* fetch_page's call extract_text(soup, ...) on a rendered page
ExtractText ==
    /\ pc = "extract"
    /\ \E p \in PageFamily :
        /\ page' = p
        /\ content' = extract_text(variant, p, custom)
    /\ UNCHANGED <<files, runs, counters, pc, config, urls, discovered, i, doc, wrote,
                   hist, history>>

SpecExtract == InitExtract /\ [][ExtractText]_vars

\* ------------------------------------------------------------------ claims
\* Parts of a URL, as the claims speak of them: the URLs here all begin "h://".
RECURSIVE TakeUntil(_, _)
TakeUntil(str, stops) ==
    IF str = <<>> \/ Head(str) \in stops THEN <<>>
    ELSE <<Head(str)>> \o TakeUntil(Tail(str), stops)

AfterScheme(url) == SubSeq(url, 5, Len(url))
Authority(url) == TakeUntil(AfterScheme(url), {"/", "?", "#"})
PathOf(url) ==
    TakeUntil(SubSeq(AfterScheme(url), Len(Authority(url)) + 1, Len(AfterScheme(url))),
              {"?", "#"})
\* a path is a sequence of "/" segment
PathSegments(url) == Count(PathOf(url), "/")

SegmentOrder(x, y) ==
    \/ PathSegments(x) < PathSegments(y)
    \/ PathSegments(x) = PathSegments(y) /\ StrLess(x, y)

\* the fetch_page calls of this run that returned text, in call order
Emitted == SelectSeq(hist, LAMBDA h : Truthy(h.content))
UrlsOf(q) == [k \in 1..Len(q) |-> q[k].url]

RECURSIVE NewlinesAsLF(_)
\* a text with every CR LF pair and every other CR replaced by LF
NewlinesAsLF(t) ==
    IF t = <<>> THEN <<>>
    ELSE IF Len(t) >= 2 /\ t[1] = "CR" /\ t[2] = "LF"
         THEN <<"LF">> \o NewlinesAsLF(SubSeq(t, 3, Len(t)))
    ELSE IF t[1] = "CR" THEN <<"LF">> \o NewlinesAsLF(Tail(t))
    ELSE <<t[1]>> \o NewlinesAsLF(Tail(t))

\* a step of fetch_page that returns
FetchReturns == pc = "fetch" /\ Len(hist') = Len(hist) + 1

\* C1 (as stated): whatever the first call of fetch_page for a URL returned
\* (text, empty text, or None after an error), the next call for that URL
\* does not render and returns the identical value.
C1_SecondCallNeverRenders ==
    [][(FetchReturns /\ lastRet[urls[i]].called)
         => /\ ~lastRet'[urls[i]].rendered
            /\ lastRet'[urls[i]].ret = lastRet[urls[i]].ret]_vars

\* C1 (amended): when a call of fetch_page for a URL returned non-empty text,
\* the next call for that URL does not render, and returns that text with
\* every CR LF pair and every other CR read back as LF.
C1_SecondCallAfterText ==
    [][(FetchReturns /\ lastRet[urls[i]].called /\ Truthy(lastRet[urls[i]].ret))
         => /\ ~lastRet'[urls[i]].rendered
            /\ lastRet'[urls[i]].ret = NewlinesAsLF(lastRet[urls[i]].ret)]_vars

\* C1 witness: a second call served from the cache file returned a text that
\* differs from the extracted one (its carriage return was read back as LF).
C1_Witness ==
    \E u \in Universe :
        /\ lastRet[u].called
        /\ ~lastRet[u].rendered
        /\ Truthy(lastRet[u].ret)
        /\ Truthy(extracted[u])
        /\ lastRet[u].ret # extracted[u]

\* C2: the list get_all_urls returns is sorted by (number of path segments,
\* then string order) and holds no URL twice.
C2_SortedBySegments ==
    \A j, k \in 1..Len(urls) : j < k => SegmentOrder(urls[j], urls[k])

\* C3: with a non-empty filter, every URL of a section of the output document
\* has the filter in its path and has the origin of the base URL.
C3_FilterInPath ==
    (pc = "done" /\ wrote /\ filter # <<>>)
        => \A k \in 1..Len(outFile.sections) :
               /\ Contains(filter, PathOf(outFile.sections[k].url))
               /\ Authority(outFile.sections[k].url) = Authority(base)

\* the cascade the claim describes: custom selector, fallback selectors in
\* order, largest div; the first whose trimmed text has more than 50 characters
CascadeStages(p, useCustom) ==
    (IF useCustom /\ p.custom # NoElem THEN <<p.custom>> ELSE <<>>)
    \o SelectSeq([k \in 1..6 |-> p.sel[k]], LAMBDA e : e # NoElem)
    \o (IF p.divs # <<>> THEN <<LargestDiv(p.divs)>> ELSE <<>>)
Qualifying(p, useCustom) ==
    SelectSeq(CascadeStages(p, useCustom), LAMBDA e : Len(ElemText(e)) > 50)
CascadeText(p, useCustom) ==
    IF Qualifying(p, useCustom) = <<>> THEN <<>>
    ELSE ElemText(Head(Qualifying(p, useCustom)))

\* C4: in both variants the text extract_text gives for a rendered page is
\* that of the first cascade stage with more than 50 characters, else empty.
C4_CascadeBothVariants ==
    page.status = "ok" => content = CascadeText(page, custom)

\* scraper.py alone follows the cascade
ScraperFollowsCascade ==
    (page.status = "ok" /\ variant = "scraper") => content = CascadeText(page, custom)

\* C5: when urls_cache.pkl exists, get_all_urls returns the list stored in
\* it, does not call extract_links and leaves the file as it is.
C5_CachedListReturned ==
    [][(pc = "get_urls" /\ urlsFile # NoList /\ pc' \in {"fetch", "done"})
         => /\ urls' = urlsFile
            /\ urlsFile' = urlsFile
            /\ ~discovered']_vars

\* C5 witness: a cached list holding a URL outside the current base URL is
\* being processed without discovery.
C5_Witness ==
    /\ pc = "fetch"
    /\ ~discovered
    /\ urls = urlsFile
    /\ \E k \in 1..Len(urls) : ~StartsWith(urls[k], base)

\* C6: in a finished run where a model call raised, the output is written with
\* its header, one section per fetched text, and the body of every section
\* whose call raised is the fetched text itself.
C6_FailOpen ==
    (pc = "done" /\ \E k \in 1..Len(hist) : hist[k].llm = "raised")
        => /\ wrote
           /\ outFile.state = "written"
           /\ outFile.base = base
           /\ outFile.filter = filter
           /\ Len(outFile.sections) = Len(Emitted)
           /\ \A k \in 1..Len(Emitted) :
                  Emitted[k].llm = "raised"
                      => /\ outFile.sections[k].url = Emitted[k].url
                         /\ outFile.sections[k].body = Emitted[k].content

\* C6 witness: a finished run of two sections in which every model call raised.
C6_Witness ==
    /\ pc = "done"
    /\ wrote
    /\ Len(outFile.sections) = 2
    /\ \A k \in 1..Len(Emitted) : Emitted[k].llm = "raised"

\* C7: a run that has entered the loop over the URLs does not end before main
\* has come to its end.
C7_LoopNeverAborts == pc = "aborted" => i = 0

\* C8: a run that ends has written the output file exactly when a fetch_page
\* call of it returned text, and a run that has not written leaves the file
\* as it was.
C8_WritesIffText ==
    [][/\ (pc \in {"get_urls", "fetch", "llm", "finish"} /\ pc' \in {"done", "aborted"})
            => (wrote' <=> Emitted' # <<>>)
       /\ ~wrote' => outFile' = outFile]_vars

\* C8 witness: a run over a non-empty list ended without a section and the
\* output file of the run before is still there.
C8_Witness ==
    /\ pc = "done"
    /\ ~wrote
    /\ urls # <<>>
    /\ Len(hist) = Len(urls)
    /\ outFile.state = "written"

\* C9: a cache file exists only with the whole non-empty text of a completed
\* fetch, and no file exists after a fetch that returned no text.
C9_CacheHoldsCompleteText ==
    \A u \in Universe :
        /\ cache[u] # NoFile
               => Truthy(extracted[u]) /\ cache[u] = WriteText(extracted[u])
        /\ (lastRet[u].called /\ ~Truthy(lastRet[u].ret)) => cache[u] = NoFile

\* C10: the URLs are fetched one after another in list order, and the
\* sections are those of the fetched texts, in that order.
C10_SectionOrder ==
    /\ \A k \in 1..Len(hist) : hist[k].url = urls[k]
    /\ UrlsOf(doc) = UrlsOf(SelectSeq(Emitted, LAMBDA h : h.llm # "none"))
    /\ (pc = "done" /\ urls # <<>>) => Len(hist) = Len(urls)
    /\ (pc = "done" /\ wrote) => UrlsOf(outFile.sections) = UrlsOf(Emitted)

\* C10 witness: a finished run whose first URL was skipped and whose second
\* URL has the only section.
C10_Witness ==
    /\ pc = "done"
    /\ wrote
    /\ Len(urls) = 2
    /\ ~Truthy(hist[1].content)
    /\ UrlsOf(outFile.sections) = <<urls[2]>>

====
